---- MODULE Spec2Model ----
(***************************************************************************)
(* Clipster (src/clipster.py): the clipboard-history daemon, its files     *)
(* (PID file, socket file, history file), the X selections it watches and  *)
(* the one-shot clients that talk to it over the unix socket.              *)
(*                                                                         *)
(* Strings are sequences of one-character strings, so that split(':', 2),  *)
(* str.lower() and the JSON text of the history file are computed on       *)
(* characters.  A process is a daemon launched once (its index is its      *)
(* pid); the steps of prepare_files() and exit() are one system call each, *)
(* the GLib callbacks owner_change() and socket_listen() are one step.     *)
(***************************************************************************)
EXTENDS Integers, Sequences, FiniteSets, TLC

\* ---------------------------------------------------------------- bounds
\* daemon processes ever launched
NumProcs == 3
\* times an application takes an X selection
MaxCopies == 3
\* client connections ever made
MaxClients == 1
\* bytes of a long message that sendall gets into the socket before the rest
SendSegment == 32768
\* characters of a long text: more than SendSegment, no more than max_input
LongLen == 40000
\* characters of a text longer than max_input and one more recv
HugeLen == 60000
\* characters of a text a little longer than one recv
ShortTail == 2000
\* daemons started one after the other
MaxRuns == 2

\* ------------------------------------------------------ program constants
\* "max_input": "50000" (config default)
max_input == 50000
\* conn.recv(8192)
RecvSize == 8192
\* self.sock_s.listen(5)
Backlog == 5

Procs == 1 .. NumProcs

\* ---------------------------------------------------------------- strings
PRIMARY == <<"P", "R", "I", "M", "A", "R", "Y">>
CLIPBOARD == <<"C", "L", "I", "P", "B", "O", "A", "R", "D">>
BOARD == <<"B", "O", "A", "R", "D">>
SELECT == <<"S", "E", "L", "E", "C", "T">>

\* the keys of self.boards
Selections == {PRIMARY, CLIPBOARD}

\* texts that applications put on a selection and clients pipe in
Texts == { <<"a">>, <<":", "b">>, <<"\"", "\\", "\n">> }

UpperChars == <<"A", "B", "C", "D", "E", "I", "L", "M", "O", "P", "R", "S", "T", "Y">>
LowerChars == <<"a", "b", "c", "d", "e", "i", "l", "m", "o", "p", "r", "s", "t", "y">>

\* one character of str.lower()
LowerChar(c) ==
    IF \E i \in 1 .. Len(UpperChars) : UpperChars[i] = c
    THEN LowerChars[CHOOSE i \in 1 .. Len(UpperChars) : UpperChars[i] = c]
    ELSE c

\* str.lower()
Lower(s) == [i \in 1 .. Len(s) |-> LowerChar(s[i])]

\* s[::-1]
Reverse(s) == [i \in 1 .. Len(s) |-> s[Len(s) + 1 - i]]

\* x in list
Contains(s, x) == \E i \in 1 .. Len(s) : s[i] = x

\* list.index(x), 0 when absent
IndexOf(s, x) ==
    IF Contains(s, x)
    THEN CHOOSE i \in 1 .. Len(s) : s[i] = x /\ \A j \in 1 .. (i - 1) : s[j] # x
    ELSE 0

\* list.remove(x): the first occurrence only
ListRemove(s, x) ==
    LET i == IndexOf(s, x)
    IN  SubSeq(s, 1, i - 1) \o SubSeq(s, i + 1, Len(s))

\* str.split(sep): every separator splits
RECURSIVE SplitEvery(_, _, _)
SplitEvery(s, sep, maxsplit) ==
    LET i == IndexOf(s, sep)
    IN  IF i = 0
        THEN <<s>>
        ELSE <<SubSeq(s, 1, i - 1)>> \o SplitEvery(SubSeq(s, i + 1, Len(s)), sep, maxsplit)

\* str.split(sep, maxsplit)
RECURSIVE Split(_, _, _)
Split(s, sep, maxsplit) ==
    LET i == IndexOf(s, sep)
    IN  IF maxsplit = 0 \/ i = 0
        THEN <<s>>
        ELSE <<SubSeq(s, 1, i - 1)>> \o Split(SubSeq(s, i + 1, Len(s)), sep, maxsplit - 1)

\* "{0}:{1}:{2}".format(client_action, default_selection, stdin)
ClientMessage(client_action, default_selection, stdin) ==
    client_action \o <<":">> \o default_selection \o <<":">> \o stdin

\* ------------------------------------------------------------------ utf-8
\* a character outside ASCII, and the two bytes message.encode('utf-8') makes of
\* it; every other character of the model is ASCII, one byte that is itself
EAcute == "U+00E9"
LeadByte == "0xC3"
ContByte == "0xA9"

\* message.encode('utf-8')
RECURSIVE Encode(_)
Encode(s) ==
    LET i == IndexOf(s, EAcute)
    IN  IF i = 0 THEN s
        ELSE SubSeq(s, 1, i - 1) \o <<LeadByte, ContByte>>
                 \o Encode(SubSeq(s, i + 1, Len(s)))

\* the first byte of b that is not ASCII, 0 when there is none
FirstNonAscii(b) ==
    IF \E i \in 1 .. Len(b) : b[i] \in {LeadByte, ContByte}
    THEN CHOOSE i \in 1 .. Len(b) :
             /\ b[i] \in {LeadByte, ContByte}
             /\ \A j \in 1 .. (i - 1) : b[j] \notin {LeadByte, ContByte}
    ELSE 0

\* recv.decode('utf-8'): UnicodeDecodeError (ok = FALSE) on a continuation byte
\* without its lead byte and on a lead byte without its continuation byte
RECURSIVE Decode(_)
Decode(b) ==
    LET i == FirstNonAscii(b)
    IN  IF i = 0 THEN [ok |-> TRUE, text |-> b]
        ELSE IF b[i] = ContByte \/ i = Len(b) \/ b[i + 1] # ContByte
        THEN [ok |-> FALSE, text |-> <<>>]
        ELSE LET rest == Decode(SubSeq(b, i + 2, Len(b)))
             IN  [ok |-> rest.ok, text |-> SubSeq(b, 1, i - 1) \o <<EAcute>> \o rest.text]

\* ------------------------------------------------------------------- json
\* ''.join(parts)
RECURSIVE Join(_)
Join(parts) == IF parts = <<>> THEN <<>> ELSE Head(parts) \o Join(Tail(parts))

\* json.dumps of one character of a string (ensure_ascii escapes)
JsonEscapeChar(c) ==
    IF c = "\"" THEN <<"\\", "\"">>
    ELSE IF c = "\\" THEN <<"\\", "\\">>
    ELSE IF c = "\n" THEN <<"\\", "n">>
    ELSE <<c>>

\* json.dumps of a string
JsonString(s) ==
    <<"\"">> \o Join([i \in 1 .. Len(s) |-> JsonEscapeChar(s[i])]) \o <<"\"">>

\* json.dumps of a list of strings, items separated by ", "
JsonList(list) ==
    <<"[">>
    \o Join([i \in 1 .. Len(list) |->
                (IF i = 1 THEN <<>> ELSE <<",", " ">>) \o JsonString(list[i])])
    \o <<"]">>

\* json.dump(self.boards, hist_f): the keys in the order __init__ inserted them
JsonDump(b) ==
    <<"{">> \o JsonString(PRIMARY) \o <<":", " ">> \o JsonList(b[PRIMARY])
    \o <<",", " ">> \o JsonString(CLIPBOARD) \o <<":", " ">> \o JsonList(b[CLIPBOARD])
    \o <<"}">>

JsonFail == [ok |-> FALSE, val |-> <<>>, next |-> 0]

\* json whitespace between tokens
RECURSIVE SkipWs(_, _)
SkipWs(doc, i) ==
    IF i <= Len(doc) /\ doc[i] \in {" ", "\n"} THEN SkipWs(doc, i + 1) ELSE i

\* the characters of a JSON string up to its closing quote; doc[i] follows the
\* opening quote.  A raw control character or an unknown escape is an error.
RECURSIVE ScanString(_, _, _)
ScanString(doc, i, acc) ==
    IF i > Len(doc) THEN JsonFail
    ELSE IF doc[i] = "\"" THEN [ok |-> TRUE, val |-> acc, next |-> i + 1]
    ELSE IF doc[i] = "\n" THEN JsonFail
    ELSE IF doc[i] = "\\"
         THEN IF i + 1 > Len(doc) THEN JsonFail
              ELSE IF doc[i + 1] = "n" THEN ScanString(doc, i + 2, Append(acc, "\n"))
              ELSE IF doc[i + 1] \in {"\"", "\\", "/"}
                   THEN ScanString(doc, i + 2, Append(acc, doc[i + 1]))
              ELSE JsonFail
    ELSE ScanString(doc, i + 1, Append(acc, doc[i]))

ParseString(doc, i) ==
    IF i <= Len(doc) /\ doc[i] = "\"" THEN ScanString(doc, i + 1, <<>>) ELSE JsonFail

\* the items of an array after its "[" or after a ","
RECURSIVE ParseItems(_, _, _)
ParseItems(doc, i, acc) ==
    LET item == ParseString(doc, SkipWs(doc, i))
        j == SkipWs(doc, item.next)
    IN  IF ~item.ok \/ j > Len(doc) THEN JsonFail
        ELSE IF doc[j] = "," THEN ParseItems(doc, j + 1, Append(acc, item.val))
        ELSE IF doc[j] = "]" THEN [ok |-> TRUE, val |-> Append(acc, item.val), next |-> j + 1]
        ELSE JsonFail

ParseList(doc, i) ==
    IF i > Len(doc) \/ doc[i] # "[" THEN JsonFail
    ELSE LET j == SkipWs(doc, i + 1)
         IN  IF j <= Len(doc) /\ doc[j] = "]"
             THEN [ok |-> TRUE, val |-> <<>>, next |-> j + 1]
             ELSE ParseItems(doc, i + 1, <<>>)

\* the members of an object after its "{" or after a ",": <<key, list>> pairs
RECURSIVE ParseMembers(_, _, _)
ParseMembers(doc, i, acc) ==
    LET key == ParseString(doc, SkipWs(doc, i))
        c == SkipWs(doc, key.next)
    IN  IF ~key.ok \/ c > Len(doc) \/ doc[c] # ":" THEN JsonFail
        ELSE LET list == ParseList(doc, SkipWs(doc, c + 1))
                 j == SkipWs(doc, list.next)
                 got == Append(acc, <<key.val, list.val>>)
             IN  IF ~list.ok \/ j > Len(doc) THEN JsonFail
                 ELSE IF doc[j] = "," THEN ParseMembers(doc, j + 1, got)
                 ELSE IF doc[j] = "}" THEN [ok |-> TRUE, val |-> got, next |-> j + 1]
                 ELSE JsonFail

\* json.load(hist_f): the document must be one object and nothing after it
JsonLoad(doc) ==
    LET i == SkipWs(doc, 1)
    IN  IF i > Len(doc) \/ doc[i] # "{" THEN JsonFail
        ELSE LET j == SkipWs(doc, i + 1)
                 obj == IF j <= Len(doc) /\ doc[j] = "}"
                        THEN [ok |-> TRUE, val |-> <<>>, next |-> j + 1]
                        ELSE ParseMembers(doc, i + 1, <<>>)
             IN  IF obj.ok /\ SkipWs(doc, obj.next) = Len(doc) + 1 THEN obj ELSE JsonFail

\* dict.update(pairs): later pairs win, unknown keys are added
RECURSIVE DictUpdate(_, _)
DictUpdate(d, pairs) ==
    IF pairs = <<>> THEN d
    ELSE LET k == Head(pairs)[1]
             v == Head(pairs)[2]
         IN  DictUpdate([x \in DOMAIN d \cup {k} |-> IF x = k THEN v ELSE d[x]], Tail(pairs))

\* ------------------------------------------------------------------ state
VARIABLES
    pc,          \* where each daemon process is
    exit_code,   \* the exit status of a process that ended
    boards,      \* self.boards of each daemon
    pid_read,    \* the pid prepare_files() read from the PID file (kept as a record
                 \* of the run when the process has ended)
    pid_file,    \* the PID file: the pid written in it, or NoPid
    sock_file,   \* the socket file: the daemon whose socket it names, or NoSock
    hist_file,   \* the history file: whether it exists, and its text
    dir_exists,  \* whether clipster_dir exists
    clip,        \* the text each X selection holds
    pending,     \* the selections whose owner-change is queued for each daemon
    conns,       \* connections waiting in each daemon's listen queue
    watch,       \* whether socket_listen is still registered with the main loop
    window,      \* self.window: the picker dialog and the rows of its model
    unclosed,    \* connections a daemon accepted and did not close
    n_writes,    \* completed write_history_file() calls of each daemon
    persisted,   \* self.boards as it was when the history file was last written
    n_copies,    \* times an application took a selection so far
    n_clients,   \* client connections so far
    owner,       \* who owns each X selection: a daemon, or Application
    waiting,     \* the owner_change calls of each daemon that are inside
                 \* wait_for_text(), the innermost last
    warnings     \* "Warning: Failed to remove ..." lines exit() printed

vars == <<pc, exit_code, boards, pid_read, pid_file, sock_file, hist_file, dir_exists,
          clip, pending, conns, watch, window, unclosed, n_writes, persisted,
          n_copies, n_clients, owner, waiting, warnings>>

NoPid == 0
NoSock == 0
NoExit == -1
\* the owner of a selection that no daemon owns
Application == 0
\* the status of a process killed by a signal it does not handle (128 + SIGKILL)
Killed == 137

NoFile == [exists |-> FALSE, data |-> <<>>]
File(text) == [exists |-> TRUE, data |-> text]

\* self.boards = {"PRIMARY": [], "CLIPBOARD": []}
EmptyBoards == [s \in Selections |-> <<>>]

\* Gtk.Window(type=Gtk.WindowType.POPUP): never shown, no rows
NoWindow == [shown |-> FALSE, board |-> <<>>, items |-> <<>>]

\* os.kill(pid, 0) succeeds
Alive(p) == p \in Procs /\ pc[p] \notin {"off", "gone"}

\* the daemon is in Gtk.main(), between two callbacks
InMainLoop(d) == pc[d] = "main"

Init ==
    /\ pc = [d \in Procs |-> "off"]
    /\ exit_code = [d \in Procs |-> NoExit]
    /\ boards = [d \in Procs |-> EmptyBoards]
    /\ pid_read = [d \in Procs |-> NoPid]
    /\ pid_file = NoPid
    /\ sock_file = NoSock
    /\ hist_file = NoFile
    /\ dir_exists \in BOOLEAN
    /\ clip = [s \in Selections |-> <<>>]
    /\ pending = [d \in Procs |-> {}]
    /\ conns = [d \in Procs |-> <<>>]
    /\ watch = [d \in Procs |-> FALSE]
    /\ window = [d \in Procs |-> NoWindow]
    /\ unclosed = [d \in Procs |-> 0]
    /\ n_writes = [d \in Procs |-> 0]
    /\ persisted = EmptyBoards
    /\ n_copies = 0
    /\ n_clients = 0
    /\ owner = [s \in Selections |-> Application]
    /\ waiting = [d \in Procs |-> <<>>]
    /\ warnings = [d \in Procs |-> 0]

\* the process ends: its history, its descriptors and its queued events are
\* gone, and its output is followed no further
Die(d, code) ==
    /\ pc' = [pc EXCEPT ![d] = "gone"]
    /\ exit_code' = [exit_code EXCEPT ![d] = code]
    /\ boards' = [boards EXCEPT ![d] = EmptyBoards]
    /\ pending' = [pending EXCEPT ![d] = {}]
    /\ conns' = [conns EXCEPT ![d] = <<>>]
    /\ watch' = [watch EXCEPT ![d] = FALSE]
    /\ window' = [window EXCEPT ![d] = NoWindow]
    /\ unclosed' = [unclosed EXCEPT ![d] = 0]
    /\ waiting' = [waiting EXCEPT ![d] = <<>>]
    /\ warnings' = [warnings EXCEPT ![d] = 0]

Goto(d, label) == pc' = [pc EXCEPT ![d] = label]

files == <<pid_file, sock_file, hist_file, dir_exists>>
xserver == <<clip, owner, n_copies>>
memory == <<boards, pending, watch, window, unclosed, waiting>>

\* ------------------------------------------------------- prepare_files()
\* Clipster.Daemon(config).run(): a daemon process starts
Launch(d) ==
    /\ pc[d] = "off"
    /\ Goto(d, "open_pid")
    /\ UNCHANGED <<exit_code, memory, pid_read, conns, files, xserver, n_clients, n_writes, persisted, warnings>>

\* open(self.pid_file, 'r'); pid = int(runf_r.read())
OpenPid(d) ==
    /\ pc[d] = "open_pid"
    /\ IF pid_file = NoPid
       THEN Goto(d, "write_pid") /\ UNCHANGED pid_read
       ELSE Goto(d, "kill") /\ pid_read' = [pid_read EXCEPT ![d] = pid_file]
    /\ UNCHANGED <<exit_code, boards, pending, watch, window, unclosed, waiting, conns, files,
                   xserver, n_clients, n_writes, persisted, warnings>>

\* the liveness check that tidies the files up before it gives up
KillCheck_cleans(d) ==
    /\ pc[d] = "kill"
    /\ IF Alive(pid_read[d])
       THEN Die(d, 1) /\ pid_file' = NoPid /\ sock_file' = NoSock
       ELSE /\ Goto(d, "unlink_pid")
            /\ UNCHANGED <<exit_code, memory, conns, pid_file, sock_file, warnings>>
    /\ UNCHANGED <<pid_read, hist_file, dir_exists, xserver, n_clients, n_writes, persisted>>

\* os.kill(pid, 0): "Daemon already running", sys.exit(1), or OSError
KillCheck(d) ==
    /\ pc[d] = "kill"
    /\ IF Alive(pid_read[d])
       THEN Die(d, 1)
       ELSE Goto(d, "unlink_pid") /\ UNCHANGED <<exit_code, memory, conns, warnings>>
    /\ UNCHANGED <<pid_read, files, xserver, n_clients, n_writes, persisted>>

\* os.unlink(self.pid_file); a file already gone is passed over
UnlinkPid(d) ==
    /\ pc[d] = "unlink_pid"
    /\ pid_file' = NoPid
    /\ Goto(d, "write_pid")
    /\ UNCHANGED <<exit_code, memory, pid_read, conns, sock_file, hist_file, dir_exists,
                   xserver, n_clients, n_writes, persisted, warnings>>

\* open(self.pid_file, 'w'); write(str(os.getpid())): IOError when the directory
\* of the PID file is missing, which nothing catches
WritePid(d) ==
    /\ pc[d] = "write_pid"
    /\ IF dir_exists
       THEN /\ pid_file' = d
            /\ Goto(d, "makedirs")
            /\ UNCHANGED <<exit_code, memory, conns, warnings>>
       ELSE Die(d, 1) /\ UNCHANGED pid_file
    /\ UNCHANGED <<pid_read, sock_file, hist_file, dir_exists, xserver, n_clients, n_writes,
                   persisted>>

\* os.makedirs(clipster_dir); EEXIST is passed over
MakeDirs(d) ==
    /\ pc[d] = "makedirs"
    /\ dir_exists' = TRUE
    /\ Goto(d, "read_history")
    /\ UNCHANGED <<exit_code, memory, pid_read, conns, pid_file, sock_file, hist_file,
                   xserver, n_clients, n_writes, persisted, warnings>>

\* self.boards.update(json.load(hist_f)); ENOENT is passed over, a document
\* json cannot parse raises ValueError, which nothing catches
read_history_file(d) ==
    IF ~hist_file.exists
    THEN [ok |-> TRUE, boards |-> boards[d]]
    ELSE LET doc == JsonLoad(hist_file.data)
         IN  IF doc.ok
             THEN [ok |-> TRUE, boards |-> DictUpdate(boards[d], doc.val)]
             ELSE [ok |-> FALSE, boards |-> boards[d]]

ReadHistory(d) ==
    /\ pc[d] = "read_history"
    /\ LET r == read_history_file(d)
       IN  IF r.ok
           THEN /\ boards' = [boards EXCEPT ![d] = r.boards]
                /\ Goto(d, "unlink_sock")
                /\ UNCHANGED <<exit_code, pending, watch, window, unclosed, waiting, conns,
                               warnings>>
           ELSE Die(d, 1)
    /\ UNCHANGED <<pid_read, files, xserver, n_clients, n_writes, persisted>>

\* os.unlink(self.sock_file); OSError is passed over
UnlinkSock(d) ==
    /\ pc[d] = "unlink_sock"
    /\ sock_file' = NoSock
    /\ Goto(d, "bind")
    /\ UNCHANGED <<exit_code, memory, pid_read, conns, pid_file, hist_file, dir_exists,
                   xserver, n_clients, n_writes, persisted, warnings>>

\* sock_s.bind(self.sock_file), listen(5), then run() connects the handlers and
\* enters Gtk.main(); bind raises when the path exists (EADDRINUSE)
Bind(d) ==
    /\ pc[d] = "bind"
    /\ IF sock_file = NoSock
       THEN /\ sock_file' = d
            /\ watch' = [watch EXCEPT ![d] = TRUE]
            /\ Goto(d, "main")
            /\ UNCHANGED <<exit_code, boards, pending, window, unclosed, waiting, conns,
                           warnings>>
       ELSE Die(d, 1) /\ UNCHANGED sock_file
    /\ UNCHANGED <<pid_read, pid_file, hist_file, dir_exists, xserver, n_clients, n_writes,
                   persisted>>

\* ---------------------------------------------------------------- exit()
\* SIGINT or SIGTERM reaches the main loop: GLib calls self.exit
Signal(d) ==
    /\ InMainLoop(d)
    /\ Goto(d, "exit_unlink_sock")
    /\ UNCHANGED <<exit_code, memory, pid_read, conns, files, xserver, n_clients, n_writes, persisted, warnings>>

\* exit() where a socket file that cannot be removed ends the daemon
ExitUnlinkSock_fatal(d) ==
    /\ pc[d] = "exit_unlink_sock"
    /\ IF sock_file = NoSock
       THEN Die(d, 1)
       ELSE Goto(d, "exit_unlink_pid") /\ UNCHANGED <<exit_code, memory, conns, warnings>>
    /\ sock_file' = NoSock
    /\ UNCHANGED <<pid_read, pid_file, hist_file, dir_exists, xserver, n_clients, n_writes,
                   persisted>>

\* os.unlink(self.sock_file); OSError (no such file) is caught and a warning
\* is printed
ExitUnlinkSock(d) ==
    /\ pc[d] = "exit_unlink_sock"
    /\ sock_file' = NoSock
    /\ warnings' = [warnings EXCEPT ![d] = IF sock_file = NoSock THEN @ + 1 ELSE @]
    /\ Goto(d, "exit_unlink_pid")
    /\ UNCHANGED <<exit_code, memory, pid_read, conns, pid_file, hist_file, dir_exists,
                   xserver, n_clients, n_writes, persisted>>

\* os.unlink(self.pid_file); OSError (no such file) is caught and a warning is
\* printed
ExitUnlinkPid(d) ==
    /\ pc[d] = "exit_unlink_pid"
    /\ pid_file' = NoPid
    /\ warnings' = [warnings EXCEPT ![d] = IF pid_file = NoPid THEN @ + 1 ELSE @]
    /\ Goto(d, "exit_open_hist")
    /\ UNCHANGED <<exit_code, memory, pid_read, conns, sock_file, hist_file, dir_exists,
                   xserver, n_clients, n_writes, persisted>>

\* write_history_file(): open(self.hist_file, 'w') creates or truncates the file
ExitOpenHist(d) ==
    /\ pc[d] = "exit_open_hist"
    /\ hist_file' = File(<<>>)
    /\ Goto(d, "exit_dump")
    /\ UNCHANGED <<exit_code, memory, pid_read, conns, pid_file, sock_file, dir_exists,
                   xserver, n_clients, n_writes, persisted, warnings>>

\* write_history_file that dumps the PRIMARY history alone
write_history_file_primary(d) == JsonDump([boards[d] EXCEPT ![CLIPBOARD] = <<>>])

\* the text write_history_file() leaves in the file: json.dump(self.boards, hist_f)
write_history_file(d) == JsonDump(boards[d])

\* json.dump(self.boards, hist_f) and the close of the file
ExitDump(d) ==
    /\ pc[d] = "exit_dump"
    /\ hist_file' = File(write_history_file(d))
    /\ n_writes' = [n_writes EXCEPT ![d] = @ + 1]
    /\ persisted' = boards[d]
    /\ Goto(d, "sys_exit")
    /\ UNCHANGED <<exit_code, memory, pid_read, conns, pid_file, sock_file, dir_exists,
                   xserver, n_clients, warnings>>

\* sys.exit(0)
SysExit(d) ==
    /\ pc[d] = "sys_exit"
    /\ Die(d, 0)
    /\ UNCHANGED <<pid_read, files, xserver, n_clients, n_writes, persisted>>

\* SIGKILL, or a signal outside Gtk.main(): the process ends where it is
Crash(d) ==
    /\ Alive(d)
    /\ Die(d, Killed)
    /\ UNCHANGED <<pid_read, files, xserver, n_clients, n_writes, persisted>>

\* ----------------------------------------------------- clipboard history
\* update_history without the removal of the earlier occurrence
update_history_append(list, text) == Append(list, text)

\* update_history that leaves a text it already holds where it is
update_history_keep_place(list, text) ==
    IF Contains(list, text) THEN list ELSE Append(list, text)

\* update_history(board, text) on the list self.boards[board]
update_history(list, text) ==
    IF Contains(list, text)
    THEN Append(ListRemove(list, text), text)
    ELSE Append(list, text)

\* Gtk.Clipboard.set_text, or an application taking the selection: the selection
\* holds the text and every daemon in its main loop is sent owner-change
SetText(sel, text) ==
    /\ clip' = [clip EXCEPT ![sel] = text]
    /\ pending' = [e \in Procs |-> IF InMainLoop(e) THEN pending[e] \cup {sel} ELSE pending[e]]

\* an application copies a text, or takes the selection with nothing textual
\* (a change no daemon is notified of is not followed)
ExternalCopy(sel, text) ==
    /\ \E d \in Procs : InMainLoop(d)
    /\ n_copies < MaxCopies
    /\ n_copies' = n_copies + 1
    /\ SetText(sel, text)
    /\ owner' = [owner EXCEPT ![sel] = Application]
    /\ UNCHANGED <<pc, exit_code, boards, pid_read, watch, window, unclosed, waiting, conns, files,
                   n_clients, n_writes, persisted, warnings>>

\* owner_change(board, event): text = board.wait_for_text(); if text: update_history
owner_change(d, selection) ==
    LET text == clip[selection]
    IN  IF text # <<>>
        THEN [boards[d] EXCEPT ![selection] = update_history(@, text)]
        ELSE boards[d]

\* board.handler_block(event_id) is in force: an owner_change call for the
\* selection has not returned
Blocked(d, selection) == \E i \in 1 .. Len(waiting[d]) : waiting[d][i].selection = selection

\* owner_change runs from its start to its return: nothing else was ready to
\* be dispatched while wait_for_text() waited
OwnerChange(d, selection) ==
    /\ InMainLoop(d)
    /\ selection \in pending[d]
    /\ ~Blocked(d, selection)
    /\ boards' = [boards EXCEPT ![d] = owner_change(d, selection)]
    /\ pending' = [pending EXCEPT ![d] = @ \ {selection}]
    /\ UNCHANGED <<pc, exit_code, pid_read, watch, window, unclosed, waiting, conns, files, xserver,
                   n_clients, n_writes, persisted, warnings>>

\* owner_change up to text = board.wait_for_text() for a selection another
\* process owns: Gtk asks the owner for the text and runs the main loop until
\* the answer is there, so other callbacks of the daemon are dispatched meanwhile
WaitForText(d, selection) ==
    /\ InMainLoop(d)
    /\ selection \in pending[d]
    /\ ~Blocked(d, selection)
    /\ owner[selection] # d
    /\ pending' = [pending EXCEPT ![d] = @ \ {selection}]
    /\ waiting' = [waiting EXCEPT ![d] =
                       Append(@, [selection |-> selection, text |-> clip[selection]])]
    /\ UNCHANGED <<pc, exit_code, boards, pid_read, watch, window, unclosed, conns, files,
                   xserver, n_clients, n_writes, persisted, warnings>>

\* the innermost wait_for_text() returns and owner_change goes on to its end:
\* if text: update_history(selection, text)
TextArrives(d) ==
    /\ InMainLoop(d)
    /\ waiting[d] # <<>>
    /\ LET call == waiting[d][Len(waiting[d])]
       IN  boards' = [boards EXCEPT ![d][call.selection] =
                         IF call.text # <<>> THEN update_history(@, call.text) ELSE @]
    /\ waiting' = [waiting EXCEPT ![d] = SubSeq(@, 1, Len(@) - 1)]
    /\ UNCHANGED <<pc, exit_code, pid_read, pending, watch, window, unclosed, conns, files,
                   xserver, n_clients, n_writes, persisted, warnings>>

\* ---------------------------------------------------------------- clients
\* what clients send: client() messages, and what other programs write to the socket
Messages ==
    {ClientMessage(BOARD, PRIMARY, text) : text \in Texts \cup {<<>>}}
    \cup {ClientMessage(SELECT, sel, <<>>) : sel \in Selections}
    \cup { ClientMessage(BOARD, CLIPBOARD, <<"a">>),
           ClientMessage(BOARD, Lower(PRIMARY), <<"a">>),
           ClientMessage(SELECT, Lower(PRIMARY), <<>>),
           ClientMessage(BOARD, <<"w", "i", "n", "d", "o", "w">>, <<"a">>),
           ClientMessage(<<"N", "O", "P">>, PRIMARY, <<"a">>),
           BOARD \o <<":", "a">>,
           <<"x">> }

\* a text of n characters
Pad(n) == [i \in 1 .. n |-> "a"]

\* a text whose one non-ASCII character is, in a BOARD message for PRIMARY, the
\* last byte of the first recv(8192) and the first byte of the second
Straddling(n) ==
    Pad(RecvSize - Len(ClientMessage(BOARD, PRIMARY, <<>>)) - 1) \o <<EAcute>> \o Pad(n)

\* what is piped into clipster: nothing, short texts with colons, a newline and
\* a non-ASCII character, and long texts
InputContents ==
    { <<>>, <<"a">>, <<":", "b">>, <<"a", ":", ":", "b", "\n">>, <<EAcute>>,
      Pad(LongLen), Pad(HugeLen), Straddling(ShortTail), Straddling(HugeLen) }

\* the messages client() builds from them
InputMessages ==
    {ClientMessage(client_action, sel, stdin) :
        client_action \in {BOARD, SELECT}, sel \in Selections, stdin \in InputContents}

\* sock_c.connect(socket_file): the daemon that bound the path is listening
ClientConnect(d, msg) ==
    /\ n_clients < MaxClients
    /\ sock_file = d
    /\ Alive(d)
    /\ Len(conns[d]) < Backlog
    /\ conns' = [conns EXCEPT ![d] = Append(@, [msg |-> msg, sent |-> FALSE, arrived |-> 0])]
    /\ n_clients' = n_clients + 1
    /\ UNCHANGED <<pc, exit_code, memory, pid_read, files, xserver, n_writes, persisted, warnings>>

\* sock_c.sendall(message.encode('utf-8')) has handed the socket the first
\* piece of a message longer than the socket takes at once
ClientSendPart(d, i) ==
    /\ i \in 1 .. Len(conns[d])
    /\ ~conns[d][i].sent
    /\ conns[d][i].arrived = 0
    /\ Len(Encode(conns[d][i].msg)) > SendSegment
    /\ conns' = [conns EXCEPT ![d][i].arrived = SendSegment]
    /\ UNCHANGED <<pc, exit_code, memory, pid_read, files, xserver, n_clients, n_writes,
                   persisted, warnings>>

\* sock_c.sendall(message.encode('utf-8')) returns: every byte is in the socket
ClientSend(d, i) ==
    /\ i \in 1 .. Len(conns[d])
    /\ ~conns[d][i].sent
    /\ conns' = [conns EXCEPT ![d][i] =
                     [@ EXCEPT !.sent = TRUE, !.arrived = Len(Encode(conns[d][i].msg))]]
    /\ UNCHANGED <<pc, exit_code, memory, pid_read, files, xserver, n_clients, n_writes,
                   persisted, warnings>>

\* ------------------------------------------------------- socket_listen()
Min(a, b) == IF a < b THEN a ELSE b

\* the while loop of socket_listen over the bytes that have arrived: recv(8192)
\* until nothing is left (b'' or EAGAIN) or recv_total > max_input; each piece
\* is decoded by itself, and UnicodeDecodeError leaves the handler
RECURSIVE RecvLoop(_, _, _)
RecvLoop(avail, recv_total, data) ==
    IF avail = <<>> THEN [raised |-> FALSE, data |-> data]
    ELSE LET n == Min(RecvSize, Len(avail))
             recv == Decode(SubSeq(avail, 1, n))
         IN  IF ~recv.ok
             THEN [raised |-> TRUE, data |-> data]
             ELSE IF recv_total + n > max_input
             THEN [raised |-> FALSE, data |-> data \o recv.text]
             ELSE RecvLoop(SubSeq(avail, n + 1, Len(avail)), recv_total + n,
                           data \o recv.text)

\* the bytes of a connection that recv can return
Arrived(conn) == SubSeq(Encode(conn.msg), 1, conn.arrived)

\* what a callback did: whether it raised, the set_text it made, and
\* self.window and self.boards as it left them
Outcome(raised, target, text, win, hist) ==
    [raised |-> raised, target |-> target, text |-> text, window |-> win, boards |-> hist]

\* the rows in storage order, [::-1] left out
picker_rows_stored(list) == list

\* the rows selection_widget appends to the model: self.boards[board][::-1]
picker_rows(list) == Reverse(list)

\* selection_widget(board): a new dialog; KeyError for a board self.boards lacks
selection_widget(d, board) ==
    IF board \in DOMAIN boards[d]
    THEN Outcome(FALSE, <<>>, <<>>,
                 [shown |-> TRUE, board |-> board, items |-> picker_rows(boards[d][board])],
                 boards[d])
    ELSE Outcome(TRUE, <<>>, <<>>, [shown |-> FALSE, board |-> board, items |-> <<>>],
                 boards[d])

\* update_board that sets the text on CLIPBOARD whatever the board
update_board_clipboard(d, board, data) ==
    Outcome(FALSE, CLIPBOARD, data, window[d], boards[d])

\* update_board that also records the text in the history itself
update_board_records(d, board, data) ==
    IF Lower(board) = Lower(PRIMARY)
    THEN Outcome(FALSE, PRIMARY, data, window[d],
                 [boards[d] EXCEPT ![PRIMARY] = update_history(@, data)])
    ELSE IF Lower(board) = Lower(CLIPBOARD)
    THEN Outcome(FALSE, CLIPBOARD, data, window[d],
                 [boards[d] EXCEPT ![CLIPBOARD] = update_history(@, data)])
    ELSE Outcome(TRUE, <<>>, <<>>, window[d], boards[d])

\* update_board(board, data): getattr(self, board.lower()).set_text(data, -1);
\* AttributeError unless the attribute is one of the two Gtk.Clipboard objects
update_board(d, board, data) ==
    IF Lower(board) = Lower(PRIMARY)
    THEN Outcome(FALSE, PRIMARY, data, window[d], boards[d])
    ELSE IF Lower(board) = Lower(CLIPBOARD)
    THEN Outcome(FALSE, CLIPBOARD, data, window[d], boards[d])
    ELSE Outcome(TRUE, <<>>, <<>>, window[d], boards[d])

\* socket_listen after the read loop: sig, board, content = sent.split(':', 2)
\* raises ValueError unless split gives three parts
socket_listen(d, sent) ==
    IF sent = <<>> THEN Outcome(FALSE, <<>>, <<>>, window[d], boards[d])
    ELSE LET parts == Split(sent, ":", 2)
         IN  IF Len(parts) # 3 THEN Outcome(TRUE, <<>>, <<>>, window[d], boards[d])
             ELSE IF parts[1] = SELECT THEN selection_widget(d, parts[2])
             ELSE IF parts[1] = BOARD /\ parts[3] # <<>>
                  THEN update_board(d, parts[2], parts[3])
             ELSE Outcome(FALSE, <<>>, <<>>, window[d], boards[d])

\* the GLib watch calls socket_listen: accept, read, dispatch, conn.close(),
\* return True.  A callback that raises has closed nothing and returned nothing:
\* the main loop prints the traceback and drops a watch that did not return True.
SocketListen(d) ==
    /\ InMainLoop(d)
    /\ watch[d]
    /\ conns[d] # <<>>
    /\ LET read == RecvLoop(Arrived(Head(conns[d])), 0, <<>>)
           r == IF read.raised
                THEN Outcome(TRUE, <<>>, <<>>, window[d], boards[d])
                ELSE socket_listen(d, read.data)
       IN  /\ conns' = [conns EXCEPT ![d] = Tail(@)]
           /\ boards' = [boards EXCEPT ![d] = r.boards]
           /\ window' = [window EXCEPT ![d] = r.window]
           /\ watch' = [watch EXCEPT ![d] = ~r.raised]
           /\ unclosed' = [unclosed EXCEPT ![d] = IF r.raised THEN @ + 1 ELSE @]
           /\ IF r.target # <<>>
              THEN SetText(r.target, r.text) /\ owner' = [owner EXCEPT ![r.target] = d]
              ELSE UNCHANGED <<clip, pending, owner>>
    /\ UNCHANGED <<pc, exit_code, pid_read, files, n_copies, n_clients, n_writes, persisted,
                   waiting, warnings>>

\* selection_handler: the user activates row i of the picker; update_board with
\* the row's text, model.clear(), window.hide()
PickerActivate(d, i) ==
    /\ InMainLoop(d)
    /\ window[d].shown
    /\ i \in 1 .. Len(window[d].items)
    /\ LET r == update_board(d, window[d].board, window[d].items[i])
       IN  /\ SetText(r.target, r.text)
           /\ owner' = [owner EXCEPT ![r.target] = d]
           /\ boards' = [boards EXCEPT ![d] = r.boards]
    /\ window' = [window EXCEPT ![d] = [shown |-> FALSE, board |-> @.board, items |-> <<>>]]
    /\ UNCHANGED <<pc, exit_code, pid_read, watch, unclosed, waiting, conns, files, n_copies,
                   n_clients, n_writes, persisted, warnings>>

\* keypress_handler: Escape hides the picker
PickerEscape(d) ==
    /\ InMainLoop(d)
    /\ window[d].shown
    /\ window' = [window EXCEPT ![d].shown = FALSE]
    /\ UNCHANGED <<pc, exit_code, boards, pid_read, pending, watch, unclosed, waiting, conns, files,
                   xserver, n_clients, n_writes, persisted, warnings>>

\* --------------------------------------------------------- specifications
\* a step of prepare_files() and run()
PrepareStep(d) ==
    \/ OpenPid(d)
    \/ KillCheck(d)
    \/ UnlinkPid(d)
    \/ WritePid(d)
    \/ MakeDirs(d)
    \/ ReadHistory(d)
    \/ UnlinkSock(d)
    \/ Bind(d)

\* a termination signal and the steps of exit(), or the end of the process
ExitStep(d) ==
    \/ Signal(d)
    \/ ExitUnlinkSock(d)
    \/ ExitUnlinkPid(d)
    \/ ExitOpenHist(d)
    \/ ExitDump(d)
    \/ SysExit(d)
    \/ Crash(d)

\* the user starts a daemon when none is running
LaunchAlone(d) ==
    /\ d <= MaxRuns
    /\ \A e \in Procs : ~Alive(e)
    /\ Launch(d)

\* the life of the daemon: started, running while applications copy, stopped by
\* a signal or killed, and started again, one daemon at a time
Next ==
    \/ \E d \in Procs : LaunchAlone(d)
    \/ \E d \in Procs : PrepareStep(d)
    \/ \E d \in Procs : ExitStep(d)
    \/ \E sel \in Selections, text \in Texts \cup {<<>>} : ExternalCopy(sel, text)
    \/ \E d \in Procs, sel \in Selections : OwnerChange(d, sel)

Spec == Init /\ [][Next]_vars

\* daemons started at any time, also while another is starting or running
NextConcurrent ==
    \/ \E d \in Procs : Launch(d)
    \/ \E d \in Procs : PrepareStep(d)
    \/ \E d \in Procs : ExitStep(d)

SpecConcurrent == Init /\ [][NextConcurrent]_vars

\* the user starts a daemon again whenever the last one has ended
Relaunch(d) ==
    /\ \A e \in Procs : ~Alive(e)
    /\ Launch(d)

\* daemons started one after the other, each stopped by a signal or killed
NextRestart ==
    \/ \E d \in Procs : Relaunch(d)
    \/ \E d \in Procs : PrepareStep(d)
    \/ \E d \in Procs : ExitStep(d)

SpecRestart == Init /\ [][NextRestart]_vars

\* the state Spec reaches when the first daemon, started with clipster_dir in
\* place and no files in it, has entered Gtk.main()
InitRunning ==
    /\ pc = [d \in Procs |-> IF d = 1 THEN "main" ELSE "off"]
    /\ exit_code = [d \in Procs |-> NoExit]
    /\ boards = [d \in Procs |-> EmptyBoards]
    /\ pid_read = [d \in Procs |-> NoPid]
    /\ pid_file = 1
    /\ sock_file = 1
    /\ hist_file = NoFile
    /\ dir_exists = TRUE
    /\ clip = [s \in Selections |-> <<>>]
    /\ pending = [d \in Procs |-> {}]
    /\ conns = [d \in Procs |-> <<>>]
    /\ watch = [d \in Procs |-> d = 1]
    /\ window = [d \in Procs |-> NoWindow]
    /\ unclosed = [d \in Procs |-> 0]
    /\ n_writes = [d \in Procs |-> 0]
    /\ persisted = EmptyBoards
    /\ n_copies = 0
    /\ n_clients = 0
    /\ owner = [s \in Selections |-> Application]
    /\ waiting = [d \in Procs |-> <<>>]
    /\ warnings = [d \in Procs |-> 0]

\* the running daemon with applications, clients and the picker around it
NextClients ==
    \/ \E d \in Procs : ExitStep(d)
    \/ \E sel \in Selections, text \in Texts \cup {<<>>} : ExternalCopy(sel, text)
    \/ \E d \in Procs, sel \in Selections : OwnerChange(d, sel)
    \/ \E d \in Procs, msg \in Messages : ClientConnect(d, msg)
    \/ \E d \in Procs, i \in 1 .. Backlog : ClientSend(d, i)
    \/ \E d \in Procs : SocketListen(d)
    \/ \E d \in Procs, i \in 1 .. Cardinality(Texts) : PickerActivate(d, i)
    \/ \E d \in Procs : PickerEscape(d)

SpecClients == InitRunning /\ [][NextClients]_vars

\* the running daemon and the clients that pipe texts of every size into it
NextInput ==
    \/ \E d \in Procs, msg \in InputMessages : ClientConnect(d, msg)
    \/ \E d \in Procs, i \in 1 .. Backlog : ClientSendPart(d, i)
    \/ \E d \in Procs, i \in 1 .. Backlog : ClientSend(d, i)
    \/ \E d \in Procs : SocketListen(d)
    \/ \E d \in Procs, sel \in Selections : OwnerChange(d, sel)
    \/ \E d \in Procs : PickerEscape(d)

SpecInput == InitRunning /\ [][NextInput]_vars

\* the running daemon with owner_change followed through wait_for_text(), while
\* applications copy, clients connect and signals arrive
NextNested ==
    \/ \E d \in Procs : ExitStep(d)
    \/ \E sel \in Selections, text \in Texts \cup {<<>>} : ExternalCopy(sel, text)
    \/ \E d \in Procs, sel \in Selections : WaitForText(d, sel)
    \/ \E d \in Procs : TextArrives(d)
    \/ \E d \in Procs, sel \in Selections : OwnerChange(d, sel)
    \/ \E d \in Procs, msg \in Messages : ClientConnect(d, msg)
    \/ \E d \in Procs, i \in 1 .. Backlog : ClientSend(d, i)
    \/ \E d \in Procs : SocketListen(d)

SpecNested == InitRunning /\ [][NextNested]_vars

TypeOK ==
    /\ pc \in [Procs -> {"off", "open_pid", "kill", "unlink_pid", "write_pid", "makedirs",
                         "read_history", "unlink_sock", "bind", "main", "exit_unlink_sock",
                         "exit_unlink_pid", "exit_open_hist", "exit_dump", "sys_exit", "gone"}]
    /\ exit_code \in [Procs -> {NoExit, 0, 1, Killed}]
    /\ \A d \in Procs : DOMAIN boards[d] = Selections
    /\ pid_file \in {NoPid} \cup Procs
    /\ sock_file \in {NoSock} \cup Procs
    /\ dir_exists \in BOOLEAN
    /\ n_copies \in 0 .. MaxCopies
    /\ n_clients \in 0 .. MaxClients
    /\ owner \in [Selections -> {Application} \cup Procs]
    /\ \A d \in Procs : Len(waiting[d]) <= Cardinality(Selections)

\* ----------------------------------------------------------------- claims
\* the step is one of daemon d's own, not the end of its process by a kill
OwnStep(d) == pc'[d] # pc[d] /\ exit_code'[d] # Killed

\* socket_listen of daemon d takes the connection at the head of its queue
Accepts(d) ==
    /\ pc[d] = "main"
    /\ conns[d] # <<>>
    /\ conns'[d] = Tail(conns[d])
    /\ exit_code'[d] = NoExit

\* owner_change of daemon d handles the notification for the selection
Records(d, sel) ==
    /\ pc[d] = "main"
    /\ pc'[d] = "main"
    /\ sel \in pending[d]
    /\ sel \notin pending'[d]

NoDuplicates(list) ==
    \A i, j \in 1 .. Len(list) : i # j => list[i] # list[j]

\* C1: in every state, no history of a daemon (PRIMARY or CLIPBOARD) holds the
\* same string twice.
C1_NoDuplicates ==
    \A d \in Procs, sel \in Selections : NoDuplicates(boards[d][sel])

\* C1: three copies were recorded into a PRIMARY history of two entries
C1_Witness ==
    \E d \in Procs :
        /\ n_copies = MaxCopies
        /\ pending[d] = {}
        /\ Len(boards[d][PRIMARY]) = 2
        /\ boards[d][PRIMARY][2] = clip[PRIMARY]
        /\ boards[d][CLIPBOARD] = <<>>
        /\ clip[CLIPBOARD] = <<>>

\* C2: at most one daemon is past PREPARE, in Gtk.main(), at any time.
C2_SingleInstance ==
    Cardinality({d \in Procs : pc[d] = "main"}) <= 1

\* fewer than two colons in the message
Malformed(msg) == Cardinality({i \in 1 .. Len(msg) : msg[i] = ":"}) < 2

\* C3: when socket_listen handles a payload with fewer than two colons, the
\* history is unchanged, the daemon stays in its main loop and socket_listen
\* stays registered, so that later connections are accepted.
C3_MalformedRecoverable ==
    [][\A d \in Procs :
          (Accepts(d) /\ Head(conns[d]).sent /\ Malformed(Head(conns[d]).msg))
          => (boards'[d] = boards[d] /\ pc'[d] = "main" /\ watch'[d])]_vars

\* C4: whenever exit() has removed the socket file or the PID file,
\* it has already persisted the history, once; and a daemon that ended with
\* status 0 persisted it once.
C4_PersistBeforeCleanup ==
    \A d \in Procs :
        /\ pc[d] \in {"exit_unlink_pid", "exit_open_hist", "exit_dump", "sys_exit"}
              => n_writes[d] = 1
        /\ exit_code[d] = 0 => n_writes[d] = 1

\* C5: a daemon in PREPARE changes no file while it reads the PID file and
\* checks the pid, and when the pid it read is alive at the check it ends with
\* status 1.
C5_LivePidRejected ==
    [][\A d \in Procs :
          /\ (pc[d] = "open_pid" /\ OwnStep(d))
             => /\ UNCHANGED <<pid_file, sock_file, hist_file>>
                /\ pid_file # NoPid => pc'[d] = "kill" /\ pid_read'[d] = pid_file
          /\ (pc[d] = "kill" /\ OwnStep(d) /\ Alive(pid_read[d]))
             => /\ UNCHANGED <<pid_file, sock_file, hist_file>>
                /\ pc'[d] = "gone"
                /\ exit_code'[d] = 1]_vars

\* C5: a daemon ended with status 1 on the pid of a daemon that is running, and
\* the PID file and the socket file are still that daemon's
C5_Witness ==
    \E d, e \in Procs :
        /\ exit_code[d] = 1
        /\ pid_read[d] = e
        /\ pc[e] = "main"
        /\ pid_file = e
        /\ sock_file = e

\* C6: a daemon that found the PID file naming a dead process does not fail in
\* the rest of PREPARE, and enters the main loop with the PID file holding its
\* own pid and the socket file its own socket.
C6_StaleProceeds ==
    [][\A d \in Procs :
          (/\ pid_read[d] # NoPid
           /\ pc[d] \in {"unlink_pid", "write_pid", "makedirs", "read_history",
                         "unlink_sock", "bind"})
          => /\ exit_code'[d] # 1
             /\ pc'[d] = "main" => pid_file' = d /\ sock_file' = d]_vars

\* C7: the document a clean shutdown writes loads back to the history that was
\* written, and a daemon that has loaded the history file holds the history as
\* it was persisted: both selections, same entries, same order.
C7_RoundTrip ==
    \A d \in Procs :
        /\ pc[d] = "sys_exit"
              => /\ hist_file.exists
                 /\ JsonLoad(hist_file.data).ok
                 /\ DictUpdate(EmptyBoards, JsonLoad(hist_file.data).val) = boards[d]
        /\ (pc[d] = "unlink_sock" /\ hist_file.exists) => boards[d] = persisted

\* C7: a freshly started daemon has loaded a history of both selections whose
\* texts need escaping
C7_Witness ==
    \E d \in Procs :
        /\ pc[d] = "unlink_sock"
        /\ hist_file.exists
        /\ Len(boards[d][PRIMARY]) = 2
        /\ Contains(boards[d][PRIMARY], <<"\"", "\\", "\n">>)
        /\ boards[d][CLIPBOARD] = << <<":", "b">> >>

\* C8: a step of socket_listen leaves the history of both selections as it
\* was, and the history of a running daemon changes only in a step that handles
\* an owner-change notification.
C8_BoardIsRequest ==
    [][\A d \in Procs :
          /\ Accepts(d) => boards'[d] = boards[d]
          /\ (boards'[d] # boards[d] /\ pc'[d] = "main")
             => \E sel \in Selections : Records(d, sel)]_vars

\* C8: a BOARD message put its text on PRIMARY (no application copied
\* anything) and the history is still empty, the notification waiting
C8_Witness ==
    \E d \in Procs :
        /\ pc[d] = "main"
        /\ n_copies = 0
        /\ clip[PRIMARY] = <<"a">>
        /\ PRIMARY \in pending[d]
        /\ boards[d][PRIMARY] = <<>>
        /\ conns[d] = <<>>

\* C9: handling the notification for a selection that holds text x leaves x
\* once in the history, as its last entry, the other entries in the order they
\* had; the length is unchanged when x was there and grows by one, the earlier
\* entries in place, when it was not.
C9_MoveToEnd ==
    [][\A d \in Procs, sel \in Selections :
          (Records(d, sel) /\ clip[sel] # <<>>)
          => LET x == clip[sel]
                 old == boards[d][sel]
                 new == boards'[d][sel]
                 Other(e) == e # x
             IN  /\ new # <<>>
                 /\ new[Len(new)] = x
                 /\ Cardinality({i \in 1 .. Len(new) : new[i] = x}) = 1
                 /\ SelectSeq(new, Other) = SelectSeq(old, Other)
                 /\ Contains(old, x) => Len(new) = Len(old)
                 /\ ~Contains(old, x)
                       => Len(new) = Len(old) + 1 /\ SubSeq(new, 1, Len(old)) = old]_vars

\* C9: after three copies and one BOARD message the PRIMARY history holds the
\* three texts, the one the message set last
C9_Witness ==
    \E d \in Procs :
        /\ n_copies = MaxCopies
        /\ n_clients = 1
        /\ conns[d] = <<>>
        /\ pending[d] = {}
        /\ Len(boards[d][PRIMARY]) = 3
        /\ boards[d][PRIMARY][3] = <<"a">>
        /\ clip[PRIMARY] = <<"a">>

\* C10: when socket_listen handles SELECT for a selection, the picker is shown
\* with that selection's history, last entry first, and the histories are as
\* they were.
C10_PickerMostRecentFirst ==
    [][\A d \in Procs, sel \in Selections :
          (/\ Accepts(d)
           /\ Head(conns[d]).sent
           /\ Head(conns[d]).msg = ClientMessage(SELECT, sel, <<>>))
          => LET list == boards[d][sel]
                 rows == window'[d].items
             IN  /\ window'[d].shown
                 /\ window'[d].board = sel
                 /\ Len(rows) = Len(list)
                 /\ \A i \in 1 .. Len(list) : rows[i] = list[Len(list) + 1 - i]
                 /\ boards'[d] = boards[d]]_vars

\* C10: the picker shows a history of three entries, last entry first
C10_Witness ==
    \E d \in Procs :
        /\ window[d].shown
        /\ window[d].board = PRIMARY
        /\ Len(boards[d][PRIMARY]) = 3
        /\ window[d].items = Reverse(boards[d][PRIMARY])
        /\ window[d].items[1] = boards[d][PRIMARY][3]

\* C11: every connection a daemon accepted was closed by the handler that
\* accepted it, whatever the payload.
C11_ConnectionsClosed ==
    \A d \in Procs : unclosed[d] = 0

\* C12: a daemon whose bind fails leaves the PID file as it found it: the file
\* does not hold that daemon's pid.
C12_BindFailureLeavesNoTrace ==
    [][\A d \in Procs :
          (pc[d] = "bind" /\ pc'[d] = "gone" /\ exit_code'[d] = 1)
          => pid_file' # d]_vars

\* C13: whenever the history file exists, it holds the complete document of
\* the last completed write, never an empty or partial one.
C13_AtomicHistoryWrite ==
    hist_file.exists => hist_file.data = JsonDump(persisted)

\* C14: when socket_listen takes a connection whose message client() built
\* from an action BOARD or SELECT, a selection and a content, splitting the
\* message on its first two colons gives back exactly the action, the selection
\* and the content, colons and newlines in the content included.
C14_DecodeInvertsEncode ==
    [][\A d \in Procs, client_action \in {BOARD, SELECT}, sel \in Selections,
          stdin \in InputContents :
          (Accepts(d) /\ Head(conns[d]).msg = ClientMessage(client_action, sel, stdin))
          => Split(Head(conns[d]).msg, ":", 2) = <<client_action, sel, stdin>>]_vars

\* C14: a BOARD message whose content holds colons and a newline was taken and
\* the selection holds the content
C14_Witness ==
    \E d \in Procs :
        /\ n_clients = 1
        /\ conns[d] = <<>>
        /\ CLIPBOARD \in pending[d]
        /\ clip[CLIPBOARD] = <<"a", ":", ":", "b", "\n">>

\* C17: when socket_listen takes a connection on which a client has sent a
\* BOARD message of more than max_input bytes, the handler completes and puts
\* on the selection a prefix of the content; the payload it read is longer than
\* max_input by no more than one recv of RecvSize bytes.
C17_ReadLoopBounded ==
    [][\A d \in Procs, sel \in Selections, stdin \in InputContents :
          (/\ Accepts(d)
           /\ Head(conns[d]).sent
           /\ Head(conns[d]).msg = ClientMessage(BOARD, sel, stdin)
           /\ Len(Encode(Head(conns[d]).msg)) > max_input)
          => LET text == clip'[sel]
                 payload == Encode(ClientMessage(BOARD, sel, text))
             IN  /\ watch'[d]
                 /\ unclosed'[d] = unclosed[d]
                 /\ sel \in pending'[d]
                 /\ text = SubSeq(stdin, 1, Len(text))
                 /\ Len(payload) > max_input
                 /\ Len(payload) <= max_input + RecvSize]_vars

\* C19: when socket_listen takes a connection on which bytes of a BOARD
\* message of no more than max_input bytes have arrived, it puts the whole
\* content on the selection, never less, and completes.
C19_WholeMessage ==
    [][\A d \in Procs, sel \in Selections, stdin \in InputContents :
          (/\ Accepts(d)
           /\ Head(conns[d]).arrived > 0
           /\ stdin # <<>>
           /\ Head(conns[d]).msg = ClientMessage(BOARD, sel, stdin)
           /\ Len(Encode(Head(conns[d]).msg)) <= max_input)
          => /\ watch'[d]
             /\ sel \in pending'[d]
             /\ clip'[sel] = stdin]_vars

\* C15: handling a BOARD message with non-empty content puts the content on
\* the selection it names and queues the owner-change notification, and an
\* owner_change call that returns having read a text from the selection leaves
\* the history of the selection ending with that text, whatever the history
\* was and whether or not other handlers ran while it waited for the text.
C15_BoardReachesHistory ==
    [][\A d \in Procs, sel \in Selections :
          /\ \A text \in Texts :
                (/\ Accepts(d)
                 /\ Head(conns[d]).sent
                 /\ Head(conns[d]).msg = ClientMessage(BOARD, sel, text))
                => (clip'[sel] = text /\ owner'[sel] = d /\ sel \in pending'[d])
          /\ (Records(d, sel) /\ waiting'[d] = waiting[d] /\ clip[sel] # <<>>)
             => /\ boards'[d][sel] # <<>>
                /\ boards'[d][sel][Len(boards'[d][sel])] = clip[sel]
          /\ (/\ pc[d] = "main"
              /\ pc'[d] = "main"
              /\ Len(waiting'[d]) < Len(waiting[d])
              /\ waiting[d][Len(waiting[d])].selection = sel
              /\ waiting[d][Len(waiting[d])].text # <<>>)
             => /\ boards'[d][sel] # <<>>
                /\ boards'[d][sel][Len(boards'[d][sel])] = waiting[d][Len(waiting[d])].text]_vars

\* C15: the daemon owns PRIMARY with the text of a BOARD message, and the
\* history, which held the text already, ends with it
C15_Witness ==
    \E d \in Procs :
        /\ owner[PRIMARY] = d
        /\ clip[PRIMARY] = <<":", "b">>
        /\ n_clients = 1
        /\ conns[d] = <<>>
        /\ pending[d] = {}
        /\ n_copies = MaxCopies
        /\ Len(boards[d][PRIMARY]) = 3
        /\ boards[d][PRIMARY][3] = <<":", "b">>

\* C16: while an owner_change call of a daemon has not returned, the daemon
\* starts no other handler: socket_listen takes no connection, exit is not
\* entered, and no owner_change starts for the other selection.
C16_HandlersRunToCompletion ==
    [][\A d \in Procs :
          waiting[d] # <<>>
          => /\ ~Accepts(d)
             /\ ~(pc[d] = "main" /\ pc'[d] = "exit_unlink_sock")
             /\ \A sel \in Selections : ~Records(d, sel)]_vars

\* C18: exit() goes on after an unlink that failed: from the unlink of the
\* socket file it goes to the unlink of the PID file and from there to the
\* write of the history, whether or not the file was there, and the daemon
\* reaches sys.exit(0) with the history written once and ends with status 0.
C18_CleanupFailureRecoverable ==
    [][\A d \in Procs :
          /\ (pc[d] = "exit_unlink_sock" /\ OwnStep(d)) => pc'[d] = "exit_unlink_pid"
          /\ (pc[d] = "exit_unlink_pid" /\ OwnStep(d)) => pc'[d] = "exit_open_hist"
          /\ (pc[d] = "exit_dump" /\ OwnStep(d))
             => (pc'[d] = "sys_exit" /\ n_writes'[d] = n_writes[d] + 1
                 /\ persisted' = boards[d])
          /\ (pc[d] = "sys_exit" /\ OwnStep(d)) => (exit_code'[d] = 0 /\ n_writes[d] = 1)]_vars

\* C18: a daemon is about to end with status 0, its history written, after
\* both unlinks of exit() failed
C18_Witness ==
    \E d \in Procs :
        /\ pc[d] = "sys_exit"
        /\ warnings[d] = 2
        /\ n_writes[d] = 1
        /\ hist_file.exists

\* C20: as long as there is no working directory, no PID file, no socket file
\* and no history file, no daemon has failed to start.
C20_FirstStartSucceeds ==
    \A d \in Procs :
        (~dir_exists /\ pid_file = NoPid /\ sock_file = NoSock /\ ~hist_file.exists)
        => exit_code[d] # 1

====
